---- MODULE Spec2Model ----
(***************************************************************************)
(* The live-scan engine of new_scanner.py: calculate_indicators,           *)
(* check_signal and the scan loop of main.                                  *)
(*                                                                         *)
(* Numbers.  Prices are integers in paise (1/100 rupee).  A pandas float   *)
(* column that may hold NaN is a record [nan, num, den] standing for the   *)
(* exact rational num/den; comparisons are done by cross-multiplication,   *)
(* and a comparison with NaN is false, as in pandas.  round(x, 2) yields   *)
(* paise; a value lying exactly halfway between two paise may land on      *)
(* either side in binary floating point, so rounding yields a set.         *)
(* Rows are numbered from 1: pandas' df.iloc[-k] is df[Len(df) - k + 1]    *)
(* and pandas' index i is position i + 1.                                  *)
(***************************************************************************)
EXTENDS Integers, Sequences, FiniteSets, TLC

VARIABLES
    DEBUG,                  \* new_scanner.py:35, fixed for a run
    MAX_SIGNALS,            \* new_scanner.py:27, fixed for a run
    symbols,                \* the universe read at line 343, with what the
                            \* outside world answers for each symbol
    idx,                    \* number of rows of symbols the loop has taken
    signals_sent,
    last_processed_df,
    last_processed_symbol,
    df,                     \* main's local df (None or a frame)
    signal,                 \* main's local signal (None or a record)
    sent,                   \* what send_telegram_photo has delivered, in order
    notified,               \* the "No signals found" message was posted
    pc,                     \* "loop", "tail", "done" or "crashed"; "off" when
                            \* another script runs
    error                   \* where an exception left main, "" if none

\* swing_scanner.py, main: its universe is symbols as well
VARIABLES
    swing_pc,               \* "off", "start", "not_run", "loop", "report" or
                            \* "done"
    swing_idx,              \* number of rows of symbols the loop has taken
    valid_trades,           \* the signals collected, in order
    swing_msg               \* what send_telegram_msg was called with:
                            \* "", "signals" or "no_signals"

\* nse_intraday_picks.py, the two detect_swing_trades
VARIABLES
    hist_pc,                \* "off", "loop" or "done"
    hist_script,            \* "", "stock_pick copy 2" or "stock_pick old"
    hist_df,                \* detect_swing_trades' df, as the loop reads it
    hist_i,                 \* the loop variable i
    trades                  \* the trades appended, in order

VARIABLES
    fetch_pc,               \* "off", "safe_get", "today_safe_get", "returned"
                            \* or "raised"
    fetch_call,             \* the function called: "", "safe_get" or
                            \* "fetch_data"
    retries,                \* safe_get's parameter
    attempt,                \* GET requests made by the running safe_get
    gets,                   \* what each of them did: "raise" or "response"
    fetch_r,                \* what safe_get returned: "", "None" or "response"
    fetch_hist_df,          \* fetch_data's hist_df: the timestamps, sorted
    fetched                 \* what fetch_data returned: None or timestamps

VARIABLES
    picks_pc,               \* "off", "start", "loop" or "done"
    picks_idx,              \* number of symbols the loop has taken
    data,                   \* the quotes that passed the first filter
    chosen_sector,          \* "" until a sector is chosen
    picks,                  \* the rows of the final df, in order
    picks_msg               \* the message built: "", "no_stocks",
                            \* "no_sector" or "picks"

main_vars == <<DEBUG, MAX_SIGNALS, idx, signals_sent, last_processed_df,
               last_processed_symbol, df, signal, sent, notified, pc, error>>
swing_vars == <<swing_pc, swing_idx, valid_trades, swing_msg>>
hist_vars == <<hist_pc, hist_script, hist_df, hist_i, trades>>
fetch_vars == <<fetch_pc, fetch_call, retries, attempt, gets, fetch_r,
                fetch_hist_df, fetched>>
picks_vars == <<picks_pc, picks_idx, data, chosen_sector, picks, picks_msg>>

vars == <<DEBUG, MAX_SIGNALS, symbols, idx, signals_sent, last_processed_df,
          last_processed_symbol, df, signal, sent, notified, pc, error,
          swing_vars, hist_vars, fetch_vars, picks_vars>>

(***************************************************************************)
(* Bounds of the model.                                                    *)
(***************************************************************************)
MaxUniverse == 3        \* longest universe built from the small world set
MaxCap == 2             \* MAX_SIGNALS ranges over 0..MaxCap
MaxExtraBars == 1       \* series hold up to MIN_BARS + MaxExtraBars candles
MaxHistExtra == 3       \* the historical scans make up to MaxHistExtra passes
MaxRetries == 3         \* safe_get is called with retries in 0..MaxRetries
MaxDate == 3            \* candles are dated 1..MaxDate
MaxCandles == 2         \* a response lists up to MaxCandles candles
MaxPicksSymbols == 5    \* symbols.txt holds up to MaxPicksSymbols tickers

(***************************************************************************)
(* Program constants.                                                      *)
(***************************************************************************)
MA_PERIOD_44 == 44
VOL_PERIOD == 20
RSI_PERIOD == 14
MIN_BARS == 50
lookback == 5
RSI_LOW == 38
RSI_HIGH == 60
\* 5 * tan(2 degrees) / 100 = 0.00174603847458...; TAN_NUM / TAN_DEN is the
\* convergent just below it, and no ratio of two SMA sums of the model lies
\* between the two, so "x <= TAN_NUM / TAN_DEN" decides "atan2(100 x, 5) < 2".
TAN_NUM == 371
TAN_DEN == 212481

None == <<>>
Some(x) == <<x>>

Max(a, b) == IF a >= b THEN a ELSE b
Min(a, b) == IF a <= b THEN a ELSE b

NaN == [nan |-> TRUE, num |-> 0, den |-> 1]
Num(n, d) == [nan |-> FALSE, num |-> n, den |-> d]

\* round(num/den, 2) of a value held in paise (den > 0)
Round2(num, den) ==
    LET q == num \div den
        r == num % den
    IN  IF 2 * r < den THEN {q}
        ELSE IF 2 * r > den THEN {q + 1}
        ELSE {q, q + 1}

\* the running totals of a column: CumSum(col, i)[k] = col[1] + ... + col[k]
\* for k in 1..i, computed by halves
RECURSIVE CumSum(_, _)
CumSum(col, i) ==
    IF i = 0 THEN <<>>
    ELSE IF i = 1 THEN <<col[1]>>
    ELSE LET h == i \div 2
             left == CumSum(col, h)
             right == CumSum([k \in 1..(i - h) |-> col[h + k]], i - h)
         IN  left \o [k \in 1..(i - h) |-> left[h] + right[k]]

\* the window taken forward, as on a frame sorted newest first
rolling_mean_Forward(col, w) ==
    LET c == CumSum(col, Len(col))
    IN  [i \in 1..Len(col) |->
            IF i + w - 1 > Len(col) THEN NaN
            ELSE Num(c[i + w - 1] - (IF i = 1 THEN 0 ELSE c[i - 1]), w)]

\* Series.rolling(w).mean(): NaN until w values are in the window, then the
\* sum of the trailing w values over w
rolling_mean(col, w) ==
    LET c == CumSum(col, Len(col))
    IN  [i \in 1..Len(col) |->
            IF i < w THEN NaN
            ELSE Num(c[i] - (IF i = w THEN 0 ELSE c[i - w]), w)]

\* gain / loss on two rolling means of non-negative values: floating-point
\* division, which yields inf or NaN for a zero divisor and never raises
rs_div(gain, loss) ==
    IF gain.nan \/ loss.nan THEN [kind |-> "nan", g |-> 0, l |-> 1]
    ELSE IF loss.num = 0
         THEN IF gain.num = 0 THEN [kind |-> "nan", g |-> 0, l |-> 1]
              ELSE [kind |-> "inf", g |-> gain.num, l |-> 0]
    ELSE [kind |-> "num", g |-> gain.num, l |-> loss.num]

\* an infinite rs treated as missing
rsi_of_InfNaN(rs) ==
    IF rs.kind = "num" THEN Num(100 * rs.g, rs.g + rs.l) ELSE NaN

\* 100 - (100 / (1 + rs))
rsi_of(rs) ==
    IF rs.kind = "nan" THEN NaN
    ELSE IF rs.kind = "inf" THEN Num(100, 1)
    ELSE Num(100 * rs.g, rs.g + rs.l)

\* delta.where(delta > 0, 0): the first delta is NaN and becomes 0
gain_col(close) ==
    [i \in 1..Len(close) |->
        IF i = 1 THEN 0 ELSE Max(close[i] - close[i - 1], 0)]

\* delta.where(delta < 0, 0), negated after the rolling mean
loss_col(close) ==
    [i \in 1..Len(close) |->
        IF i = 1 THEN 0 ELSE Max(close[i - 1] - close[i], 0)]

calculate_indicators(s) ==
    LET close == [i \in 1..Len(s) |-> s[i].close]
        volume == [i \in 1..Len(s) |-> s[i].volume]
        sma == rolling_mean(close, MA_PERIOD_44)
        vol == rolling_mean(volume, VOL_PERIOD)
        gain == rolling_mean(gain_col(close), RSI_PERIOD)
        loss == rolling_mean(loss_col(close), RSI_PERIOD)
    IN  [i \in 1..Len(s) |->
            [timestamp |-> s[i].timestamp, open |-> s[i].open,
             high |-> s[i].high, low |-> s[i].low, close |-> s[i].close,
             volume |-> s[i].volume,
             sma_44 |-> sma[i], vol_avg_20 |-> vol[i],
             rsi_14 |-> rsi_of(rs_div(gain[i], loss[i]))]]

(***************************************************************************)
(* The candle series the model feeds to the scan.  A series is a run of    *)
(* early bars closing at cE, a run of bars closing at BASE, and three      *)
(* final bars (prev2, prev and the classified bar) drawn from fixed        *)
(* shapes; timestamps ascend.  A world is what the outside answers for     *)
(* one symbol: no data, a malformed payload, or such a series.             *)
(***************************************************************************)
BASE == 100 * 100
BASE_VOLUME == 10 * 100

Bar(o, h, l, c) == [open |-> o, high |-> h, low |-> l, close |-> c]

Shape(name) ==
    CASE name = "flat"       -> Bar(BASE, BASE, BASE, BASE)
      [] name = "red2"       -> Bar(10020, 10030, 9920, 9970)
      [] name = "red1"       -> Bar(9970, 9975, 9900, 9930)
      [] name = "bounce"     -> Bar(10000, 11100, 9950, 11000)
      [] name = "touch"      -> Bar(9940, 10010, 9920, 10000)
      [] name = "above"      -> Bar(9980, 10010, 9980, 10000)
      [] name = "gapup"      -> Bar(12500, 13100, 12400, 13000)
      [] name = "level"      -> Bar(9950, 10050, 9900, 10000)
      [] name = "wide"       -> Bar(9990, 10030, 9800, 10020)
      [] name = "redlast"    -> Bar(10000, 10010, 9900, 9950)
      [] name = "wick"       -> Bar(9940, 10300, 9700, 10000)
      [] name = "gapdown"    -> Bar(9800, 9850, 9700, 9750)

Prev2Shapes == {"flat", "red2"}
PrevShapes == {"flat", "red1"}
LastShapes == {"flat", "bounce", "touch", "above", "gapup", "level", "wide",
               "redlast", "wick"}
EarlyRuns == {0, 2, 8}
EarlyCloses == {9000, 10500}
Volumes == {BASE_VOLUME, 2 * BASE_VOLUME}
Lengths == {MA_PERIOD_44 + 1, MIN_BARS - 1} \cup (MIN_BARS..(MIN_BARS + MaxExtraBars))

World(f, n, e, cE, t2, t1, t0, v) ==
    [fetch |-> f, n |-> n, e |-> e, cE |-> cE, t2 |-> t2, t1 |-> t1,
     t0 |-> t0, vol |-> v]

NoData == World("none", 0, 0, BASE, "flat", "flat", "flat", BASE_VOLUME)
Malformed == World("raise", 0, 0, BASE, "flat", "flat", "flat", BASE_VOLUME)

Family ==
    {w \in {World("ok", n, e, cE, t2, t1, t0, v) :
                n \in Lengths, e \in EarlyRuns, cE \in EarlyCloses,
                t2 \in Prev2Shapes, t1 \in PrevShapes, t0 \in LastShapes,
                v \in Volumes} :
        w.e = 0 => w.cE = 9000}

Series(w) ==
    [i \in 1..w.n |->
        LET b == IF i = w.n THEN Shape(w.t0)
                 ELSE IF i = w.n - 1 THEN Shape(w.t1)
                 ELSE IF i = w.n - 2 THEN Shape(w.t2)
                 ELSE IF i <= w.e THEN Bar(w.cE, w.cE, w.cE, w.cE)
                 ELSE Shape("flat")
        IN  [timestamp |-> i, open |-> b.open, high |-> b.high, low |-> b.low,
             close |-> b.close,
             volume |-> IF i = w.n THEN w.vol ELSE BASE_VOLUME]]

\* fetch_data returns None when the request fails after its retries, the
\* status is not 200 or the payload holds no candles; otherwise the candles
\* sorted by timestamp with today's candle appended
fetch_data(w) == IF w.fetch = "ok" THEN Series(w) ELSE None

(***************************************************************************)
(* check_signal (new_scanner.py:135-214).  It reads the globals DEBUG and  *)
(* SUPPORT_TOLERANCE and yields the set of records round() can produce:    *)
(* {None} when no signal fires.                                            *)
(***************************************************************************)
\* SUPPORT_TOLERANCE in thousandths: 0.002, or 0.2 when DEBUG (lines 23, 37-38)
SUPPORT_TOLERANCE == IF DEBUG THEN 200 ELSE 2

\* 38 <= rsi <= 60
rsi_in_band(rsi) ==
    /\ ~rsi.nan
    /\ RSI_LOW * rsi.den <= rsi.num
    /\ rsi.num <= RSI_HIGH * rsi.den

\* volume equal to its average let through
volume_not_above_Strict(volume, avg) ==
    ~avg.nan /\ volume * avg.den < avg.num

\* row["volume"] <= row["vol_avg_20"]
volume_not_above(volume, avg) ==
    ~avg.nan /\ volume * avg.den <= avg.num

\* the row of the frame the trend gate compares with: df.iloc[-lookback]
sma_old_row(frame) == frame[Len(frame) - lookback + 1]

\* angle_deg < MIN_ANGLE, with angle_deg = degrees(atan2(percentage_rise,
\* lookback)), percentage_rise = (sma_now - sma_old) / sma_old * 100 and
\* MIN_ANGLE = 2, or 0.0 when DEBUG.  Both SMAs are sums over 44.
angle_below_min(sma_now, sma_old) ==
    LET d == sma_now.num - sma_old.num
    IN  IF sma_now.nan \/ sma_old.nan THEN FALSE
        ELSE IF DEBUG THEN d < 0
        ELSE IF d <= 0 THEN TRUE
        ELSE IF d * 100 >= sma_old.num THEN FALSE
        ELSE d * TAN_DEN <= TAN_NUM * sma_old.num

\* low <= sma_44 * (1 + SUPPORT_TOLERANCE)
touched(low, sma) ==
    ~sma.nan /\ low * sma.den * 1000 <= sma.num * (1000 + SUPPORT_TOLERANCE)

\* price > sma_44
above_sma(price, sma) == ~sma.nan /\ price * sma.den > sma.num

case_1(row) ==
    /\ row.close > row.open
    /\ touched(row.low, row.sma_44)
    /\ above_sma(row.close, row.sma_44)

\* one red bar before the classified bar is enough
case_2_EitherRed(row, prev, prev2) ==
    /\ row.close > row.open
    /\ row.close > prev.high
    /\ ~row.sma_44.nan /\ ~touched(row.low, row.sma_44)
    /\ (prev.close < prev.open \/ prev2.close < prev2.open)
    /\ (touched(prev.low, prev.sma_44) \/ touched(prev2.low, prev2.sma_44))

case_2(row, prev, prev2) ==
    /\ row.close > row.open
    /\ row.close > prev.high
    /\ ~row.sma_44.nan /\ ~touched(row.low, row.sma_44)
    /\ prev.close < prev.open
    /\ prev2.close < prev2.open
    /\ (touched(prev.low, prev.sma_44) \/ touched(prev2.low, prev2.sma_44))

\* sl without the entry * 0.98 floor
signal_records_NoFloor(row, symbol) ==
    LET entry == row.high * 2200
        sl == Min(row.low * 2200, row.sma_44.num * 50)
        target == entry + (entry - sl) * 2
    IN  {[Symbol |-> symbol, Entry |-> row.high, SL |-> s, Target |-> t,
          RSI |-> r, SLP |-> p, LastDate |-> row.timestamp] :
            s \in Round2(sl, 2200), t \in Round2(target, 2200),
            r \in Round2(100 * row.rsi_14.num, row.rsi_14.den),
            p \in Round2((entry - sl) * 50, row.high * 11)}

\* entry taken from the close instead of the high
signal_records_CloseEntry(row, symbol) ==
    LET entry == row.close * 2200
        sl == Max(Min(row.low * 2200, row.sma_44.num * 50), row.close * 2156)
        target == entry + (entry - sl) * 2
    IN  {[Symbol |-> symbol, Entry |-> row.close, SL |-> s, Target |-> t,
          RSI |-> r, SLP |-> p, LastDate |-> row.timestamp] :
            s \in Round2(sl, 2200), t \in Round2(target, 2200),
            r \in Round2(100 * row.rsi_14.num, row.rsi_14.den),
            p \in Round2((entry - sl) * 50, row.close * 11)}

\* Lines 202-214.  Prices are scaled by 2200 = 44 * 50, which makes
\* sma_44 (a sum over 44) and entry * 0.98 whole numbers.
signal_records(row, symbol) ==
    LET entry == row.high * 2200
        sl == Max(Min(row.low * 2200, row.sma_44.num * 50), row.high * 2156)
        target == entry + (entry - sl) * 2
    IN  {[Symbol |-> symbol, Entry |-> row.high, SL |-> s, Target |-> t,
          RSI |-> r, SLP |-> p, LastDate |-> row.timestamp] :
            s \in Round2(sl, 2200), t \in Round2(target, 2200),
            r \in Round2(100 * row.rsi_14.num, row.rsi_14.den),
            p \in Round2((entry - sl) * 50, row.high * 11)}

\* the length test made against the SMA period
too_short_Sma(frame) == Len(frame) < MA_PERIOD_44

\* line 136
too_short(frame) == Len(frame) < MIN_BARS

\* only the SMA tested for NaN
indicators_missing_SmaOnly(row) == row.sma_44.nan

\* line 143
indicators_missing(row) == row.sma_44.nan \/ row.rsi_14.nan

\* line 146
rsi_rejects(row) == ~DEBUG /\ ~rsi_in_band(row.rsi_14)

\* line 149
volume_rejects(row) ==
    ~DEBUG /\ volume_not_above(row.volume, row.vol_avg_20)

check_signal(frame, symbol) ==
    IF too_short(frame) THEN {None}
    ELSE
    LET row == frame[Len(frame)]
        prev == frame[Len(frame) - 1]
        prev2 == frame[Len(frame) - 2]
    IN  IF indicators_missing(row) THEN {None}
        ELSE IF rsi_rejects(row) THEN {None}
        ELSE IF volume_rejects(row) THEN {None}
        ELSE IF angle_below_min(row.sma_44, sma_old_row(frame).sma_44) THEN {None}
        ELSE IF ~(case_1(row) \/ case_2(row, prev, prev2)) THEN {None}
        ELSE {Some(r) : r \in signal_records(row, symbol)}

(***************************************************************************)
(* main (new_scanner.py:342-419).  One step is one pass of the loop body   *)
(* or the code after the loop.                                             *)
(***************************************************************************)
\* lines 396-404
mock_signals(frame, symbol) ==
    LET curr_price == frame[Len(frame)].close
    IN  {[Symbol |-> 0 - symbol, Entry |-> curr_price, SL |-> s, Target |-> t,
          RSI |-> 5000, SLP |-> 300,
          LastDate |-> frame[Len(frame)].timestamp] :
            s \in Round2(curr_price * 97, 100),
            t \in Round2(curr_price * 106, 100)}

\* worlds of the multi-symbol universes: a bounce with RSI and volume inside
\* the production gates, a flat series, and the bounce off 49 flat bars
Steady == World("ok", MIN_BARS, 8, 9000, "red2", "red1", "touch", 2 * BASE_VOLUME)
Quiet == World("ok", MIN_BARS, 0, 9000, "flat", "flat", "flat", BASE_VOLUME)
Spike == World("ok", MIN_BARS, 0, 9000, "flat", "flat", "bounce", 2 * BASE_VOLUME)
SmallWorlds == {NoData, Malformed, Steady, Quiet, Spike}

Example5 == <<Steady, Quiet, Steady, Steady, Quiet>>

\* calculate_indicators(fetch_data(w)), tabulated once for every world with data
frame_of ==
    [w \in Family \cup (SmallWorlds \ {NoData, Malformed}) |->
        calculate_indicators(fetch_data(w))]

\* a symbol qualifies when its data arrives and check_signal fires on it
Qualifies(w) ==
    /\ w.fetch = "ok"
    /\ check_signal(frame_of[w], 0) # {None}

\* worlds scanned in pairs: they share their early bars and differ in length
\* or in their last bar
PairWorlds ==
    {w \in Family :
        /\ w.n >= MIN_BARS
        /\ w.e = 2 /\ w.cE = 10500
        /\ (w.t2 = "flat") <=> (w.t1 = "flat")
        /\ w.t0 \in {"flat", "bounce", "redlast"}}

Universes ==
    UNION {[1..k -> SmallWorlds] : k \in 0..MaxUniverse}
    \cup {<<w>> : w \in Family}
    \cup {<<a, b>> : a \in PairWorlds, b \in PairWorlds}
    \cup {Example5}

\* swing_scanner.py is not the script that runs
SwingOff ==
    /\ swing_pc = "off"
    /\ swing_idx = 0
    /\ valid_trades = <<>>
    /\ swing_msg = ""

\* nse_intraday_picks.py is not the script that runs
HistOff ==
    /\ hist_pc = "off"
    /\ hist_script = ""
    /\ hist_df = None
    /\ hist_i = 0
    /\ trades = <<>>

\* neither safe_get nor fetch_data is followed request by request
FetchOff ==
    /\ fetch_pc = "off"
    /\ fetch_call = ""
    /\ retries = 0
    /\ attempt = 0
    /\ gets = <<>>
    /\ fetch_r = ""
    /\ fetch_hist_df = None
    /\ fetched = None

\* the intraday picks main is not the script that runs
PicksOff ==
    /\ picks_pc = "off"
    /\ picks_idx = 0
    /\ data = <<>>
    /\ chosen_sector = ""
    /\ picks = <<>>
    /\ picks_msg = ""

Init ==
    /\ DEBUG \in BOOLEAN
    /\ MAX_SIGNALS \in 0..MaxCap
    /\ symbols \in Universes
    /\ idx = 0
    /\ signals_sent = 0
    /\ last_processed_df = None
    /\ last_processed_symbol = 0
    /\ df = None
    /\ signal = None
    /\ sent = <<>>
    /\ notified = FALSE
    /\ pc = "loop"
    /\ error = ""
    /\ SwingOff
    /\ HistOff
    /\ FetchOff
    /\ PicksOff

config == <<DEBUG, MAX_SIGNALS, symbols>>

\* the loop body entered without the cap check of lines 353-355
InLoopBody_NoCap ==
    /\ pc = "loop"
    /\ idx < Len(symbols)

\* the cap compared with > instead of >=
InLoopBody_OffByOne ==
    /\ pc = "loop"
    /\ idx < Len(symbols)
    /\ signals_sent <= MAX_SIGNALS

InLoopBody ==
    /\ pc = "loop"
    /\ idx < Len(symbols)
    /\ signals_sent < MAX_SIGNALS

\* lines 353-355
ScanBreak ==
    /\ pc = "loop"
    /\ UNCHANGED <<swing_vars, hist_vars, fetch_vars, picks_vars>>
    /\ idx < Len(symbols)
    /\ signals_sent >= MAX_SIGNALS
    /\ pc' = "tail"
    /\ UNCHANGED <<config, idx, signals_sent, last_processed_df,
                   last_processed_symbol, df, signal, sent, notified, error>>

\* the for loop runs out of rows
ScanExhausted ==
    /\ pc = "loop"
    /\ UNCHANGED <<swing_vars, hist_vars, fetch_vars, picks_vars>>
    /\ idx = Len(symbols)
    /\ pc' = "tail"
    /\ UNCHANGED <<config, idx, signals_sent, last_processed_df,
                   last_processed_symbol, df, signal, sent, notified, error>>

\* lines 362-364: fetch_data returns None
ScanNoData ==
    /\ InLoopBody
    /\ UNCHANGED <<swing_vars, hist_vars, fetch_vars, picks_vars>>
    /\ symbols[idx + 1].fetch = "none"
    /\ df' = None
    /\ idx' = idx + 1
    /\ UNCHANGED <<config, signals_sent, last_processed_df,
                   last_processed_symbol, signal, sent, notified, pc, error>>

\* line 105 or 109: r.json() or the DataFrame constructor raises
ScanFetchRaises ==
    /\ InLoopBody
    /\ UNCHANGED <<swing_vars, hist_vars, fetch_vars, picks_vars>>
    /\ symbols[idx + 1].fetch = "raise"
    /\ idx' = idx + 1
    /\ pc' = "crashed"
    /\ error' = "fetch_data"
    /\ UNCHANGED <<config, signals_sent, last_processed_df,
                   last_processed_symbol, df, signal, sent, notified>>

\* lines 362-388 with data: indicators, check_signal, and for a signal the
\* chart, the Telegram photo and the count
ScanData ==
    /\ InLoopBody
    /\ UNCHANGED <<swing_vars, hist_vars, fetch_vars, picks_vars>>
    /\ symbols[idx + 1].fetch = "ok"
    /\ LET frame == frame_of[symbols[idx + 1]]
           results == check_signal(frame, idx + 1)
       IN  /\ df' = frame
           /\ last_processed_df' = frame
           /\ last_processed_symbol' = idx + 1
           /\ idx' = idx + 1
           /\ UNCHANGED <<config, notified>>
           /\ \/ /\ None \in results
                 /\ signal' = None
                 /\ UNCHANGED <<signals_sent, sent, pc, error>>
              \/ /\ \E s \in results \ {None} :
                        /\ signal' = s
                        /\ sent' = Append(sent, [mock |-> FALSE, signal |-> s[1]])
                 /\ signals_sent' = signals_sent + 1
                 /\ UNCHANGED <<pc, error>>
              \/ \* generate_chart or send_telegram_photo raises
                 /\ \E s \in results \ {None} : signal' = s
                 /\ pc' = "crashed"
                 /\ error' = "send_telegram_photo"
                 /\ UNCHANGED <<signals_sent, sent>>

\* the mock sent whatever the count
MockDue_Always == DEBUG /\ last_processed_df # None

MockDue == DEBUG /\ signals_sent = 0 /\ last_processed_df # None

\* the mock sent but not counted, so that the message of lines 412-419 follows
TailMock_NotCounted ==
    /\ pc = "tail"
    /\ UNCHANGED <<swing_vars, hist_vars, fetch_vars, picks_vars>>
    /\ MockDue
    /\ \E m \in mock_signals(last_processed_df, last_processed_symbol) :
            sent' = Append(sent, [mock |-> TRUE, signal |-> m])
    /\ notified' = TRUE
    /\ pc' = "done"
    /\ UNCHANGED <<config, idx, signals_sent, last_processed_df,
                   last_processed_symbol, df, signal, error>>

\* lines 391-410: the debug mock signal is sent and counted
TailMock ==
    /\ pc = "tail"
    /\ UNCHANGED <<swing_vars, hist_vars, fetch_vars, picks_vars>>
    /\ MockDue
    /\ \E m \in mock_signals(last_processed_df, last_processed_symbol) :
            sent' = Append(sent, [mock |-> TRUE, signal |-> m])
    /\ signals_sent' = signals_sent + 1
    /\ pc' = "done"
    /\ UNCHANGED <<config, idx, last_processed_df, last_processed_symbol, df,
                   signal, notified, error>>

\* lines 406-407 raise
TailMockRaises ==
    /\ pc = "tail"
    /\ UNCHANGED <<swing_vars, hist_vars, fetch_vars, picks_vars>>
    /\ MockDue
    /\ pc' = "crashed"
    /\ error' = "send_telegram_photo"
    /\ UNCHANGED <<config, idx, signals_sent, last_processed_df,
                   last_processed_symbol, df, signal, sent, notified>>

\* lines 412-419: nothing was sent, the "No signals found" message is posted
TailNotify ==
    /\ pc = "tail"
    /\ UNCHANGED <<swing_vars, hist_vars, fetch_vars, picks_vars>>
    /\ ~MockDue
    /\ signals_sent = 0
    /\ notified' = TRUE
    /\ pc' = "done"
    /\ UNCHANGED <<config, idx, signals_sent, last_processed_df,
                   last_processed_symbol, df, signal, sent, error>>

\* line 413: requests.post raises
TailNotifyRaises ==
    /\ pc = "tail"
    /\ UNCHANGED <<swing_vars, hist_vars, fetch_vars, picks_vars>>
    /\ ~MockDue
    /\ signals_sent = 0
    /\ pc' = "crashed"
    /\ error' = "requests.post"
    /\ UNCHANGED <<config, idx, signals_sent, last_processed_df,
                   last_processed_symbol, df, signal, sent, notified>>

\* lines 410-412 with signals sent: main returns
TailReturn ==
    /\ pc = "tail"
    /\ UNCHANGED <<swing_vars, hist_vars, fetch_vars, picks_vars>>
    /\ signals_sent > 0
    /\ pc' = "done"
    /\ UNCHANGED <<config, idx, signals_sent, last_processed_df,
                   last_processed_symbol, df, signal, sent, notified, error>>

(***************************************************************************)
(* swing_scanner.py.  fetch_data returns None on every failure (its body   *)
(* is one try/except), calculate_indicators is the one of new_scanner.py,  *)
(* check_signal always applies the RSI and volume gates, knows one case    *)
(* and returns unrounded levels; main collects the signals and reports     *)
(* once after the loop.                                                    *)
(***************************************************************************)
\* SUPPORT_TOLERANCE of swing_scanner.py in thousandths: 0.002
SWING_SUPPORT_TOLERANCE == 2

\* row['low'] <= row['sma_44'] * (1 + SUPPORT_TOLERANCE)
swing_touched(low, sma) ==
    ~sma.nan /\ low * sma.den * 1000 <= sma.num * (1000 + SWING_SUPPORT_TOLERANCE)

\* row['sma_44'] <= sma_5_back, with sma_5_back = df.iloc[-6]['sma_44']
swing_not_rising(frame) ==
    LET now == frame[Len(frame)].sma_44
        back == frame[Len(frame) - 5].sma_44
    IN  ~now.nan /\ ~back.nan /\ now.num * back.den <= back.num * now.den

\* lines 113-126: the levels are returned as computed, only RSI is rounded
swing_signal_records(row, symbol) ==
    LET d == row.sma_44.den
        entry == row.high * d
        sl == Min(row.low * d, row.sma_44.num)
    IN  {[Symbol |-> symbol, Date |-> row.timestamp, Price |-> row.close,
          Entry |-> row.high, SL |-> Num(sl, d),
          Target |-> Num(entry + (entry - sl) * 2, d), RSI |-> r] :
            r \in Round2(100 * row.rsi_14.num, row.rsi_14.den)}

swing_check_signal(frame, symbol) ==
    IF Len(frame) < MIN_BARS THEN {None}
    ELSE
    LET row == frame[Len(frame)]
    IN  IF row.sma_44.nan \/ row.rsi_14.nan THEN {None}
        ELSE IF ~rsi_in_band(row.rsi_14) THEN {None}
        ELSE IF volume_not_above(row.volume, row.vol_avg_20) THEN {None}
        ELSE IF swing_not_rising(frame) THEN {None}
        ELSE IF ~(/\ row.close > row.open
                  /\ swing_touched(row.low, row.sma_44)
                  /\ above_sma(row.close, row.sma_44)) THEN {None}
        ELSE {Some(r) : r \in swing_signal_records(row, symbol)}

\* the bounce of Steady on a bar with long wicks
Wick == World("ok", MIN_BARS, 8, 9000, "red2", "red1", "wick", 2 * BASE_VOLUME)
SwingWorlds == {NoData, Malformed, Steady, Quiet, Wick}
SwingUniverses == UNION {[1..k -> SwingWorlds] : k \in 0..MaxUniverse}

\* new_scanner.py is not the script that runs
MainOff ==
    /\ DEBUG = FALSE
    /\ MAX_SIGNALS = 0
    /\ idx = 0
    /\ signals_sent = 0
    /\ last_processed_df = None
    /\ last_processed_symbol = 0
    /\ df = None
    /\ signal = None
    /\ sent = <<>>
    /\ notified = FALSE
    /\ pc = "off"
    /\ error = ""

SwingInit ==
    /\ MainOff
    /\ HistOff
    /\ FetchOff
    /\ PicksOff
    /\ symbols \in SwingUniverses
    /\ swing_pc = "start"
    /\ swing_idx = 0
    /\ valid_trades = <<>>
    /\ swing_msg = ""

\* lines 130-132: no symbols file, main returns before any scan
SwingNoCsv ==
    /\ swing_pc = "start"
    /\ swing_pc' = "not_run"
    /\ UNCHANGED <<main_vars, symbols, fetch_vars, picks_vars, hist_vars, swing_idx, valid_trades,
                   swing_msg>>

\* lines 134-137
SwingStart ==
    /\ swing_pc = "start"
    /\ swing_pc' = "loop"
    /\ UNCHANGED <<main_vars, symbols, fetch_vars, picks_vars, hist_vars, swing_idx, valid_trades,
                   swing_msg>>

\* lines 143-144 with fetch_data returning None: a failed request, a status
\* other than 200, no candles, or any exception inside fetch_data
SwingNoData ==
    /\ swing_pc = "loop"
    /\ swing_idx < Len(symbols)
    /\ symbols[swing_idx + 1].fetch # "ok"
    /\ swing_idx' = swing_idx + 1
    /\ UNCHANGED <<main_vars, symbols, fetch_vars, picks_vars, hist_vars, swing_pc, valid_trades,
                   swing_msg>>

\* lines 143-149 with data
SwingData ==
    /\ swing_pc = "loop"
    /\ swing_idx < Len(symbols)
    /\ symbols[swing_idx + 1].fetch = "ok"
    /\ swing_idx' = swing_idx + 1
    /\ UNCHANGED <<main_vars, symbols, fetch_vars, picks_vars, hist_vars, swing_pc, swing_msg>>
    /\ LET results ==
               swing_check_signal(frame_of[symbols[swing_idx + 1]], swing_idx + 1)
       IN  \/ /\ None \in results
              /\ UNCHANGED valid_trades
           \/ \E s \in results \ {None} :
                  valid_trades' = Append(valid_trades, s[1])

\* the for loop runs out of rows
SwingLoopEnd ==
    /\ swing_pc = "loop"
    /\ swing_idx = Len(symbols)
    /\ swing_pc' = "report"
    /\ UNCHANGED <<main_vars, symbols, fetch_vars, picks_vars, hist_vars, swing_idx, valid_trades,
                   swing_msg>>

\* lines 154-163: the signals are reported in one message
SwingReport ==
    /\ swing_pc = "report"
    /\ valid_trades # <<>>
    /\ swing_msg' = "signals"
    /\ swing_pc' = "done"
    /\ UNCHANGED <<main_vars, symbols, fetch_vars, picks_vars, hist_vars, swing_idx, valid_trades>>

\* lines 164-166: send_telegram_msg is called with "No signals found"; it
\* catches what requests.post raises
SwingNoSignals ==
    /\ swing_pc = "report"
    /\ valid_trades = <<>>
    /\ swing_msg' = "no_signals"
    /\ swing_pc' = "done"
    /\ UNCHANGED <<main_vars, symbols, fetch_vars, picks_vars, hist_vars, swing_idx, valid_trades>>

(***************************************************************************)
(* nse_intraday_picks.py, the two historical scans.  "stock_pick copy 2"   *)
(* (lines 232-486) reads frames whose indicators add_indicators_and_save   *)
(* computed; "stock_pick old" (lines 489-671) computes ma44 and ma20       *)
(* itself and drops the rows where they are NaN.  hist_i is Python's i:    *)
(* df.loc[i] and df.iloc[i] is hist_df[i + 1].                              *)
(***************************************************************************)
\* SUPPORT_TOLERANCE of both scripts in thousandths: 0.001
HIST_SUPPORT_TOLERANCE == 1
HIST_RSI_HIGH == 58
MA_PERIOD_20 == 20
MAX_TOUCH_DAYS == 1
COPY2_FIRST == 50

\* lines 319-334: as calculate_indicators, but delta.clip keeps the NaN of
\* the first delta, so the first 14 rolling means are NaN
add_indicators(s) ==
    LET frame == calculate_indicators(s)
    IN  [i \in 1..Len(s) |->
            IF i <= RSI_PERIOD THEN [frame[i] EXCEPT !.rsi_14 = NaN]
            ELSE frame[i]]

\* a > b on two float columns; False when either is NaN
gt(a, b) == ~a.nan /\ ~b.nan /\ a.num * b.den > b.num * a.den

\* price <= ma * (1 + SUPPORT_TOLERANCE)
hist_in_zone(price, ma) ==
    ~ma.nan /\ price * ma.den * 1000 <= ma.num * (1000 + HIST_SUPPORT_TOLERANCE)

\* price < ma * (1 + SUPPORT_TOLERANCE)
hist_below_zone_top(price, ma) ==
    ~ma.nan /\ price * ma.den * 1000 < ma.num * (1000 + HIST_SUPPORT_TOLERANCE)

\* price > ma * (1 + SUPPORT_TOLERANCE)
hist_above_zone(price, ma) ==
    ~ma.nan /\ price * ma.den * 1000 > ma.num * (1000 + HIST_SUPPORT_TOLERANCE)

\* price >= ma * (1 - SUPPORT_TOLERANCE)
hist_reaches_zone(price, ma) ==
    ~ma.nan /\ price * ma.den * 1000 >= ma.num * (1000 - HIST_SUPPORT_TOLERANCE)

\* lines 362-401: no continue is taken at i
copy2_passes(frame, i) ==
    LET row == frame[i + 1]
        row_prev == frame[i]
    IN  /\ ~(row.sma_44.nan \/ row.rsi_14.nan \/ row.vol_avg_20.nan)
        /\ gt(row.sma_44, frame[i + 1 - 3].sma_44)
        /\ gt(row.sma_44, frame[i + 1 - 6].sma_44)
        /\ RSI_LOW * row.rsi_14.den <= row.rsi_14.num
        /\ row.rsi_14.num <= HIST_RSI_HIGH * row.rsi_14.den
        /\ ~volume_not_above(row.volume, row.vol_avg_20)
        /\ row_prev.open > row_prev.close
        /\ hist_in_zone(row_prev.low, row_prev.sma_44)
        /\ row.open < row.close
        /\ hist_above_zone(row.close, row.sma_44)
        /\ hist_below_zone_top(row.low, row.sma_44)

\* lines 404-417, prices scaled by 2200 as in signal_records
copy2_trades(frame, i) ==
    LET entry_row == frame[i + 2]
        signal_row == frame[i + 1]
        entryprice == entry_row.open
        sl == Max(Min(signal_row.sma_44.num * 50, signal_row.open * 2200),
                  entry_row.open * 2156)
    IN  {[signal_date |-> signal_row.timestamp,
          entry_date |-> entry_row.timestamp,
          entry_price |-> entryprice, stop_loss |-> s,
          stop_loss_percent |-> pct, has_target |-> FALSE, target |-> 0] :
            <<s, pct>> \in
                UNION {{<<s0, q>> :
                           q \in Round2((entryprice - s0) * 10000, entryprice)} :
                       s0 \in Round2(sl, 2200)}}

\* lines 556-560: ma44 and ma20 added, then dropna
old_frame(s) ==
    LET close == [i \in 1..Len(s) |-> s[i].close]
        ma44 == rolling_mean(close, MA_PERIOD_44)
        ma20 == rolling_mean(close, MA_PERIOD_20)
        full == [i \in 1..Len(s) |->
                    [timestamp |-> s[i].timestamp, open |-> s[i].open,
                     high |-> s[i].high, low |-> s[i].low,
                     close |-> s[i].close, volume |-> s[i].volume,
                     ma44 |-> ma44[i], ma20 |-> ma20[i]]]
    IN  SelectSeq(full, LAMBDA r : ~r.ma44.nan /\ ~r.ma20.nan)

\* line 564: max(MA_PERIOD_44, MA_PERIOD_20) + MAX_TOUCH_DAYS
old_first == Max(MA_PERIOD_44, MA_PERIOD_20) + MAX_TOUCH_DAYS

\* lines 565-595: no continue is taken at i
old_passes(frame, i) ==
    LET today == frame[i + 1]
        nxt == frame[i + 2]
    IN  /\ today.close > today.open
        /\ gt(today.ma20, today.ma44)
        /\ gt(frame[i + 1].ma20, frame[i + 1 - 6].ma20)
        /\ gt(frame[i + 1].ma44, frame[i + 1 - 6].ma44)
        /\ \E j \in (i - MAX_TOUCH_DAYS)..(i - 1) :
                /\ hist_in_zone(frame[j + 1].low, frame[j + 1].ma44)
                /\ hist_reaches_zone(frame[j + 1].high, frame[j + 1].ma44)
        /\ today.close - today.open > 0
        /\ today.close * today.ma44.den > today.ma44.num
        /\ nxt.high * 1000 > today.high * 1005

\* lines 597-611; the key the script does not write is 0
old_trades(frame, i) ==
    LET today == frame[i + 1]
        prev == frame[i]
        nxt == frame[i + 2]
        sl == Min(prev.low, today.low)
    IN  UNION {{[signal_date |-> today.timestamp, entry_date |-> nxt.timestamp,
                 entry_price |-> entry, stop_loss |-> sl,
                 stop_loss_percent |-> 0, has_target |-> TRUE, target |-> t] :
                   t \in Round2(2 * entry + 5 * (entry - sl), 2)} :
               entry \in Round2(today.high * 1005, 1000)}

\* The series of the historical scans: flat bars at BASE, eight low closes
\* leaving the 44-bar window when the pattern bar at position p arrives, the
\* two bars before it, the pattern bar on twice the volume and the bar
\* after it.
HistWorld(n, p, t2, t1, t0, nxt) ==
    [n |-> n, p |-> p, t2 |-> t2, t1 |-> t1, t0 |-> t0, nxt |-> nxt]

hist_series(h) ==
    [i \in 1..h.n |->
        LET b == IF i = h.p + 1 THEN Shape(h.nxt)
                 ELSE IF i = h.p THEN Shape(h.t0)
                 ELSE IF i = h.p - 1 THEN Shape(h.t1)
                 ELSE IF i = h.p - 2 THEN Shape(h.t2)
                 ELSE IF i >= h.p - 50 /\ i <= h.p - 43
                      THEN Bar(9000, 9000, 9000, 9000)
                 ELSE Shape("flat")
        IN  [timestamp |-> i, open |-> b.open, high |-> b.high, low |-> b.low,
             close |-> b.close,
             volume |-> IF i = h.p THEN 2 * BASE_VOLUME ELSE BASE_VOLUME]]

NextShapes == {"flat", "gapup", "gapdown"}

\* series of "stock_pick copy 2": from the longest without an iteration on
Copy2Family ==
    {h \in {HistWorld(n, p, "red2", "red1", "touch", nxt) :
                n \in (COPY2_FIRST + 2)..(COPY2_FIRST + 2 + MaxHistExtra),
                p \in (COPY2_FIRST + 1)..(COPY2_FIRST + 2 + MaxHistExtra),
                nxt \in NextShapes} :
        h.p <= h.n /\ (h.p = h.n => h.nxt = "flat")}

\* series of "stock_pick old": from the longest without an iteration on
OldFamily ==
    {h \in {HistWorld(n, p, "flat", "red1", "bounce", nxt) :
                n \in (MA_PERIOD_44 + old_first)..
                      (MA_PERIOD_44 + old_first + MaxHistExtra),
                p \in (MA_PERIOD_44 + old_first)..
                      (MA_PERIOD_44 + old_first + MaxHistExtra),
                nxt \in NextShapes} :
        h.p <= h.n /\ (h.p = h.n => h.nxt = "flat")}

\* detect_swing_trades is entered with the frame of one symbol
HistInit ==
    /\ MainOff
    /\ SwingOff
    /\ FetchOff
    /\ PicksOff
    /\ symbols = <<>>
    /\ \/ /\ hist_script = "stock_pick copy 2"
          /\ \E h \in Copy2Family : hist_df = add_indicators(hist_series(h))
          /\ hist_i = COPY2_FIRST
       \/ /\ hist_script = "stock_pick old"
          /\ \E h \in OldFamily : hist_df = old_frame(hist_series(h))
          /\ hist_i = old_first
    /\ trades = <<>>
    /\ hist_pc = "loop"

\* line 361: i in range(50, len(df) - 2)
Copy2InLoop ==
    /\ hist_pc = "loop"
    /\ hist_script = "stock_pick copy 2"
    /\ hist_i < Len(hist_df) - 2

\* line 564: i in range(45, len(df) - 1)
OldInLoop ==
    /\ hist_pc = "loop"
    /\ hist_script = "stock_pick old"
    /\ hist_i < Len(hist_df) - 1

\* lines 362-401: one of the continue statements is taken
Copy2Continue ==
    /\ Copy2InLoop
    /\ ~copy2_passes(hist_df, hist_i)
    /\ hist_i' = hist_i + 1
    /\ UNCHANGED <<main_vars, symbols, fetch_vars, picks_vars, swing_vars, hist_pc, hist_script,
                   hist_df, trades>>

\* lines 403-419
Copy2Trade ==
    /\ Copy2InLoop
    /\ copy2_passes(hist_df, hist_i)
    /\ \E t \in copy2_trades(hist_df, hist_i) : trades' = Append(trades, t)
    /\ hist_i' = hist_i + 1
    /\ UNCHANGED <<main_vars, symbols, fetch_vars, picks_vars, swing_vars, hist_pc, hist_script,
                   hist_df>>

\* lines 565-595: one of the continue statements is taken
OldContinue ==
    /\ OldInLoop
    /\ ~old_passes(hist_df, hist_i)
    /\ hist_i' = hist_i + 1
    /\ UNCHANGED <<main_vars, symbols, fetch_vars, picks_vars, swing_vars, hist_pc, hist_script,
                   hist_df, trades>>

\* lines 597-611
OldTrade ==
    /\ OldInLoop
    /\ old_passes(hist_df, hist_i)
    /\ \E t \in old_trades(hist_df, hist_i) : trades' = Append(trades, t)
    /\ hist_i' = hist_i + 1
    /\ UNCHANGED <<main_vars, symbols, fetch_vars, picks_vars, swing_vars, hist_pc, hist_script,
                   hist_df>>

\* the range is exhausted: lines 421-422 and 613-614
DetectReturn ==
    /\ hist_pc = "loop"
    /\ ~Copy2InLoop
    /\ ~OldInLoop
    /\ hist_pc' = "done"
    /\ UNCHANGED <<main_vars, symbols, fetch_vars, picks_vars, swing_vars, hist_script, hist_df,
                   hist_i, trades>>

Next ==
    \/ ScanBreak
    \/ ScanExhausted
    \/ ScanNoData
    \/ ScanFetchRaises
    \/ ScanData
    \/ TailMock
    \/ TailMockRaises
    \/ TailNotify
    \/ TailNotifyRaises
    \/ TailReturn
    \/ SwingNoCsv
    \/ SwingStart
    \/ SwingNoData
    \/ SwingData
    \/ SwingLoopEnd
    \/ SwingReport
    \/ SwingNoSignals
    \/ Copy2Continue
    \/ Copy2Trade
    \/ OldContinue
    \/ OldTrade
    \/ DetectReturn

Spec == (HistInit \/ SwingInit \/ Init) /\ [][Next]_vars

(***************************************************************************)
(* safe_get, fetch_today_candle and fetch_data (new_scanner.py:43-120),    *)
(* followed request by request.  A candle is carried by its timestamp, a   *)
(* date and a time of day; a daily candle is stamped at the start of its   *)
(* date.  The network decides at each GET whether it raises a request      *)
(* exception or answers, and what it answers.                              *)
(***************************************************************************)
\* safe_get(url, headers, retries=3, timeout=15), line 43
DEFAULT_RETRIES == 3

Stamp(d, t) == [date |-> d, time |-> t]

\* the order of pandas timestamps
stamp_lt(a, b) == a.date < b.date \/ (a.date = b.date /\ a.time < b.time)

DailyStamps == {Stamp(d, 0) : d \in 1..MaxDate}
IntradayStamps == {Stamp(d, t) : d \in 1..MaxDate, t \in 0..1}

\* the bodies a GET can answer with: a status other than 200, a body that
\* r.json() or the .get chain raises on, or the "candles" list of the body
Responses(stamps) ==
    {[status |-> 500, json |-> "ok", candles |-> <<>>],
     [status |-> 200, json |-> "raise", candles |-> <<>>]}
    \cup {[status |-> 200, json |-> "ok", candles |-> c] :
            c \in UNION {[1..k -> stamps] : k \in 0..MaxCandles}}

\* line 113: hist_df.sort_values("timestamp").reset_index(drop=True)
sort_values(c) == SortSeq(c, stamp_lt)

\* either safe_get is called with some retries, or fetch_data is called and
\* calls safe_get with the default
FetchInit ==
    /\ MainOff
    /\ SwingOff
    /\ HistOff
    /\ PicksOff
    /\ symbols = <<>>
    /\ \/ fetch_call = "safe_get" /\ retries \in 0..MaxRetries
       \/ fetch_call = "fetch_data" /\ retries = DEFAULT_RETRIES
    /\ fetch_pc = "safe_get"
    /\ attempt = 0
    /\ gets = <<>>
    /\ fetch_r = ""
    /\ fetch_hist_df = None
    /\ fetched = None

\* the loop with one more pass: range(1, retries + 2)
InSafeGet_OneMore ==
    /\ fetch_pc \in {"safe_get", "today_safe_get"}
    /\ attempt <= retries

\* line 44: attempt in range(1, retries + 1) has a value left
InSafeGet ==
    /\ fetch_pc \in {"safe_get", "today_safe_get"}
    /\ attempt < retries

\* where safe_get returns to
after_safe_get ==
    IF fetch_pc = "today_safe_get" THEN "today_r"
    ELSE IF fetch_call = "fetch_data" THEN "hist_r"
    ELSE "returned"

\* lines 45-49: requests.get raises a RequestException; log, sleep, next
\* attempt
GetRaises ==
    /\ InSafeGet
    /\ attempt' = attempt + 1
    /\ gets' = Append(gets, "raise")
    /\ UNCHANGED <<main_vars, symbols, swing_vars, hist_vars, picks_vars,
                   fetch_pc, fetch_call, retries, fetch_r, fetch_hist_df,
                   fetched>>

\* line 46: requests.get returns and safe_get returns its response
GetReturns ==
    /\ InSafeGet
    /\ attempt' = attempt + 1
    /\ gets' = Append(gets, "response")
    /\ fetch_r' = "response"
    /\ fetch_pc' = after_safe_get
    /\ UNCHANGED <<main_vars, symbols, swing_vars, hist_vars, picks_vars,
                   fetch_call, retries, fetch_hist_df, fetched>>

\* line 50: the loop is exhausted, return None
GetGivesUp ==
    /\ fetch_pc \in {"safe_get", "today_safe_get"}
    /\ attempt >= retries
    /\ fetch_r' = "None"
    /\ fetch_pc' = after_safe_get
    /\ UNCHANGED <<main_vars, symbols, swing_vars, hist_vars, picks_vars,
                   fetch_call, retries, attempt, gets, fetch_hist_df,
                   fetched>>

\* fetch_data lines 98-100: r is None, return None
HistNoResponse ==
    /\ fetch_pc = "hist_r"
    /\ fetch_r = "None"
    /\ fetched' = None
    /\ fetch_pc' = "returned"
    /\ UNCHANGED <<main_vars, symbols, swing_vars, hist_vars, picks_vars,
                   fetch_call, retries, attempt, gets, fetch_r,
                   fetch_hist_df>>

\* fetch_data lines 102-115: the response is read; with candles in it
\* hist_df is built and sorted and fetch_today_candle calls safe_get
HistResponse ==
    /\ fetch_pc = "hist_r"
    /\ fetch_r = "response"
    /\ \E resp \in Responses(DailyStamps) :
        \/ /\ resp.status # 200 \/ (resp.json = "ok" /\ resp.candles = <<>>)
           /\ fetched' = None
           /\ fetch_pc' = "returned"
           /\ UNCHANGED <<attempt, gets, fetch_r, fetch_hist_df>>
        \/ /\ resp.status = 200
           /\ resp.json = "raise"
           /\ fetch_pc' = "raised"
           /\ UNCHANGED <<attempt, gets, fetch_r, fetch_hist_df, fetched>>
        \/ /\ resp.status = 200
           /\ resp.json = "ok"
           /\ resp.candles # <<>>
           /\ fetch_hist_df' = sort_values(resp.candles)
           /\ fetch_pc' = "today_safe_get"
           /\ attempt' = 0
           /\ gets' = <<>>
           /\ fetch_r' = ""
           /\ UNCHANGED fetched
    /\ UNCHANGED <<main_vars, symbols, swing_vars, hist_vars, picks_vars,
                   fetch_call, retries>>

\* fetch_today_candle lines 70-72 and fetch_data lines 116-120: no response,
\* today is None and hist_df is returned as it is
TodayNoResponse ==
    /\ fetch_pc = "today_r"
    /\ fetch_r = "None"
    /\ fetched' = fetch_hist_df
    /\ fetch_pc' = "returned"
    /\ UNCHANGED <<main_vars, symbols, swing_vars, hist_vars, picks_vars,
                   fetch_call, retries, attempt, gets, fetch_r,
                   fetch_hist_df>>

\* fetch_today_candle lines 74-86 and fetch_data lines 116-120: the last
\* row of the intraday candles, as the body lists them, is appended
TodayResponse ==
    /\ fetch_pc = "today_r"
    /\ fetch_r = "response"
    /\ \E resp \in Responses(IntradayStamps) :
        \/ /\ resp.status # 200 \/ (resp.json = "ok" /\ resp.candles = <<>>)
           /\ fetched' = fetch_hist_df
           /\ fetch_pc' = "returned"
        \/ /\ resp.status = 200
           /\ resp.json = "raise"
           /\ fetch_pc' = "raised"
           /\ UNCHANGED fetched
        \/ /\ resp.status = 200
           /\ resp.json = "ok"
           /\ resp.candles # <<>>
           /\ fetched' = Append(fetch_hist_df,
                                resp.candles[Len(resp.candles)])
           /\ fetch_pc' = "returned"
    /\ UNCHANGED <<main_vars, symbols, swing_vars, hist_vars, picks_vars,
                   fetch_call, retries, attempt, gets, fetch_r,
                   fetch_hist_df>>

FetchNext ==
    \/ GetRaises
    \/ GetReturns
    \/ GetGivesUp
    \/ HistNoResponse
    \/ HistResponse
    \/ TodayNoResponse
    \/ TodayResponse

\* a running call keeps running: every GET has a timeout and every sleep ends
FetchSpec == FetchInit /\ [][FetchNext]_vars /\ WF_vars(FetchNext)

(***************************************************************************)
(* The intraday picks main (nse_intraday_picks.py:108-228).  A quote is    *)
(* what yfinance answers for a symbol; pct_change is kept as the fraction  *)
(* the code computes it from.                                              *)
(***************************************************************************)
MAX_SYMBOLS_PER_DAY == 3
PREMKT_THRESHOLD == 2
SECTOR_MIN_COUNT == 3

Sectors == {"Energy", "Unknown"}

\* what t.info can hold, or that reading it raises
Quotes ==
    {[raises |-> x, regularMarketPrice |-> c, previousClose |-> pc0,
      sector |-> sec] :
        x \in BOOLEAN, c \in {1010, 1020, 1030}, pc0 \in {0, 1000},
        sec \in Sectors}

\* lines 68-102: None on an exception or a previousClose of 0.0, otherwise
\* the dict with pct_change = ((cmp - prev_close) / prev_close) * 100
fetch_quote(symbol, q) ==
    IF q.raises THEN None
    ELSE IF q.previousClose = 0 THEN None
    ELSE Some([symbol |-> symbol, cmp |-> q.regularMarketPrice,
               pct_change |-> Num((q.regularMarketPrice - q.previousClose)
                                      * 100, q.previousClose),
               sector |-> q.sector])

\* line 132: info["pct_change"] >= PREMKT_THRESHOLD
passes_threshold(info) ==
    info.pct_change.num >= PREMKT_THRESHOLD * info.pct_change.den

\* line 152: df["sector"].value_counts()
sector_counts(d) ==
    [sec \in {d[k].sector : k \in 1..Len(d)} |->
        Cardinality({k \in 1..Len(d) : d[k].sector = sec})]

\* line 157: the sectors counted at least SECTOR_MIN_COUNT times
momentum_sectors(d) ==
    {sec \in DOMAIN sector_counts(d) : sector_counts(d)[sec] >= SECTOR_MIN_COUNT}

\* line 168: sector_counts.idxmax(), a sector of the highest count; which
\* one of several is left to the order value_counts lists them in
idxmax(d) ==
    {sec \in DOMAIN sector_counts(d) :
        \A other \in DOMAIN sector_counts(d) :
            sector_counts(d)[other] <= sector_counts(d)[sec]}

\* sort_values(by="pct_change", ascending=True): the orders a sort can leave
\* the rows in
sorted_rows_Ascending(rows) ==
    LET n == Len(rows)
        perms == {f \in [1..n -> 1..n] : \A a, b \in 1..n : a # b => f[a] # f[b]}
    IN  {[k \in 1..n |-> rows[f[k]]] : f \in
            {g \in perms : \A k \in 1..(n - 1) :
                rows[g[k]].pct_change.num * rows[g[k + 1]].pct_change.den
                    <= rows[g[k + 1]].pct_change.num * rows[g[k]].pct_change.den}}

\* line 181: sort_values(by="pct_change", ascending=False), the orders a
\* sort can leave the rows in (rows of equal pct_change in any order)
sorted_rows(rows) ==
    LET n == Len(rows)
        perms == {f \in [1..n -> 1..n] : \A a, b \in 1..n : a # b => f[a] # f[b]}
    IN  {[k \in 1..n |-> rows[f[k]]] : f \in
            {g \in perms : \A k \in 1..(n - 1) :
                rows[g[k]].pct_change.num * rows[g[k + 1]].pct_change.den
                    >= rows[g[k + 1]].pct_change.num * rows[g[k]].pct_change.den}}

\* .head(MAX_SYMBOLS_PER_DAY)
head(rows) == SubSeq(rows, 1, Min(Len(rows), MAX_SYMBOLS_PER_DAY))

\* symbols.txt holds up to MaxPicksSymbols tickers
PicksInit ==
    /\ MainOff
    /\ SwingOff
    /\ HistOff
    /\ FetchOff
    /\ symbols \in {[i \in 1..n |-> i] : n \in 0..MaxPicksSymbols}
    /\ picks_pc = "start"
    /\ picks_idx = 0
    /\ data = <<>>
    /\ chosen_sector = ""
    /\ picks = <<>>
    /\ picks_msg = ""

\* lines 115-118: no symbols, main returns
PicksNoSymbols ==
    /\ picks_pc = "start"
    /\ symbols = <<>>
    /\ picks_pc' = "done"
    /\ UNCHANGED <<main_vars, symbols, swing_vars, hist_vars, fetch_vars,
                   picks_idx, data, chosen_sector, picks, picks_msg>>

\* lines 120-124: the loop is entered
PicksStart ==
    /\ picks_pc = "start"
    /\ symbols # <<>>
    /\ picks_pc' = "loop"
    /\ UNCHANGED <<main_vars, symbols, swing_vars, hist_vars, fetch_vars,
                   picks_idx, data, chosen_sector, picks, picks_msg>>

\* lines 125-137: one symbol is quoted and kept when it passes the filter
PicksQuote ==
    /\ picks_pc = "loop"
    /\ picks_idx < Len(symbols)
    /\ \E q \in Quotes :
        LET info == fetch_quote(symbols[picks_idx + 1], q)
        IN  data' = IF info # None /\ passes_threshold(info[1])
                    THEN Append(data, info[1])
                    ELSE data
    /\ picks_idx' = picks_idx + 1
    /\ UNCHANGED <<main_vars, symbols, swing_vars, hist_vars, fetch_vars,
                   picks_pc, chosen_sector, picks, picks_msg>>

\* lines 139-143: nothing passed the filter
PicksNoData ==
    /\ picks_pc = "loop"
    /\ picks_idx = Len(symbols)
    /\ data = <<>>
    /\ picks_msg' = "no_stocks"
    /\ picks_pc' = "done"
    /\ UNCHANGED <<main_vars, symbols, swing_vars, hist_vars, fetch_vars,
                   picks_idx, data, chosen_sector, picks>>

\* lines 145-164: no sector holds SECTOR_MIN_COUNT of the rows
PicksNoSector ==
    /\ picks_pc = "loop"
    /\ picks_idx = Len(symbols)
    /\ data # <<>>
    /\ momentum_sectors(data) = {}
    /\ picks_msg' = "no_sector"
    /\ picks_pc' = "done"
    /\ UNCHANGED <<main_vars, symbols, swing_vars, hist_vars, fetch_vars,
                   picks_idx, data, chosen_sector, picks>>

\* lines 166-228: the sector is chosen, its rows are sorted and cut, and the
\* picks message is built and handed to send_telegram_message (the rows of
\* the chosen sector are never empty, so lines 172-176 are not reached)
PicksBuild ==
    /\ picks_pc = "loop"
    /\ picks_idx = Len(symbols)
    /\ data # <<>>
    /\ momentum_sectors(data) # {}
    /\ \E sec \in idxmax(data) :
        /\ chosen_sector' = sec
        /\ \E rows \in sorted_rows(SelectSeq(data, LAMBDA r : r.sector = sec)) :
                picks' = head(rows)
    /\ picks_msg' = "picks"
    /\ picks_pc' = "done"
    /\ UNCHANGED <<main_vars, symbols, swing_vars, hist_vars, fetch_vars,
                   picks_idx, data>>

PicksNext ==
    \/ PicksNoSymbols
    \/ PicksStart
    \/ PicksQuote
    \/ PicksNoData
    \/ PicksNoSector
    \/ PicksBuild

PicksSpec == PicksInit /\ [][PicksNext]_vars

(***************************************************************************)
(* Claims.                                                                 *)
(***************************************************************************)
\* the universe positions of the qualifying symbols, ascending
RECURSIVE QualifyingUpTo(_)
QualifyingUpTo(k) ==
    IF k = 0 THEN <<>>
    ELSE IF Qualifies(symbols[k]) THEN Append(QualifyingUpTo(k - 1), k)
    ELSE QualifyingUpTo(k - 1)

Qualifying == QualifyingUpTo(Len(symbols))

\* the first min(MAX_SIGNALS, number of qualifying symbols) of them
FirstQualifying == SubSeq(Qualifying, 1, Min(MAX_SIGNALS, Len(Qualifying)))

IsPrefix(s, t) == Len(s) <= Len(t) /\ s = SubSeq(t, 1, Len(s))

DeliveredSymbols == [i \in 1..Len(sent) |-> sent[i].signal.Symbol]
RealSent == SelectSeq(sent, LAMBDA x : ~x.mock)
MockSent == SelectSeq(sent, LAMBDA x : x.mock)
RealSymbols == [i \in 1..Len(RealSent) |-> RealSent[i].signal.Symbol]

\* C1: one run of main delivers at most MAX_SIGNALS signals, the debug mock
\* signal included: in every state signals_sent <= MAX_SIGNALS, and no more
\* than MAX_SIGNALS photos have been sent.
C1_SignalCap ==
    /\ signals_sent <= MAX_SIGNALS
    /\ Len(sent) <= MAX_SIGNALS

\* C1 witness: the cap stopped a scan that had symbols left
C1_Witness ==
    /\ pc = "done"
    /\ MAX_SIGNALS > 0
    /\ signals_sent = MAX_SIGNALS
    /\ idx < Len(symbols)

\* C2 as claimed: a finished run has delivered exactly the first
\* min(MAX_SIGNALS, number of qualifying symbols) qualifying symbols, in
\* universe order.
C2_Original ==
    pc = "done" => DeliveredSymbols = FirstQualifying

\* C2 amended: the signals check_signal produced are delivered in universe
\* order and are always a prefix of the first min(MAX_SIGNALS, number of
\* qualifying symbols) qualifying symbols, all of them once the run has
\* finished; besides them a finished run has delivered one mock signal, for
\* the last symbol with data, exactly when DEBUG is on, no real signal was
\* sent and some symbol's data was fetched.
C2_Amended ==
    /\ IsPrefix(RealSymbols, FirstQualifying)
    /\ pc = "done" =>
        /\ RealSymbols = FirstQualifying
        /\ Len(MockSent) <= 1
        /\ Len(MockSent) = 1 <=>
            /\ DEBUG
            /\ FirstQualifying = <<>>
            /\ \E k \in 1..idx : symbols[k].fetch = "ok"
        /\ \A i \in 1..Len(sent) : sent[i].mock =>
            /\ i = Len(sent)
            /\ symbols[0 - sent[i].signal.Symbol].fetch = "ok"
            /\ \A k \in (0 - sent[i].signal.Symbol + 1)..idx :
                    symbols[k].fetch # "ok"

\* C2 witness: the example of the specification, five symbols of which the
\* first, third and fourth qualify, cap 2: the first and the third delivered
C2_Witness ==
    /\ pc = "done"
    /\ symbols = Example5
    /\ MAX_SIGNALS = 2
    /\ Qualifying = <<1, 3, 4>>
    /\ DeliveredSymbols = <<1, 3>>

\* the row check_signal classified last, when df holds a frame; signal is
\* then its answer for df
Last == df[Len(df)]

\* C3 as claimed: the Entry, SL and Target of every returned record satisfy
\* SL <= Entry, SL >= Entry * 0.98 and Target = Entry + 2 * (Entry - SL).
C3_Original ==
    signal # None =>
        LET r == signal[1]
        IN  /\ r.SL <= r.Entry
            /\ 100 * r.SL >= 98 * r.Entry
            /\ r.Target = r.Entry + 2 * (r.Entry - r.SL)

\* C3 amended: the record holds the levels rounded to two decimals, so
\* SL <= Entry, SL >= Entry * 0.98 - 0.005 and Target differs from
\* Entry + 2 * (Entry - SL) by at most 0.01.
C3_Amended ==
    signal # None =>
        LET r == signal[1]
            t == r.Entry + 2 * (r.Entry - r.SL)
        IN  /\ r.SL <= r.Entry
            /\ 100 * r.SL >= 98 * r.Entry - 50
            /\ r.Target - t <= 1
            /\ t - r.Target <= 1

\* C3 witness: a returned record whose rounded SL and Target miss the exact
\* relations
C3_Witness ==
    /\ signal # None
    /\ 100 * signal[1].SL < 98 * signal[1].Entry
    /\ signal[1].Target # signal[1].Entry + 2 * (signal[1].Entry - signal[1].SL)

\* the series of the example: flat closes at 100, then the bar with
\* open 100, high 111, low 99.5, close 110 on twice the usual volume
C4_World(n) ==
    World("ok", n, 0, 9000, "flat", "flat", "bounce", 2 * BASE_VOLUME)

C4_Levels ==
    /\ signal # None
    /\ signal[1].Entry = 11100
    /\ signal[1].SL = 10878
    /\ signal[1].Target = 11544

\* C4 as claimed: after 44 flat-close bars and the one bar, check_signal
\* fires with entry 111, stop 108.78 and target 115.44.
C4_Original ==
    (idx = 1 /\ symbols = <<C4_World(MA_PERIOD_44 + 1)>>) => C4_Levels

\* C4 amended: after at least 49 flat-close bars and the one bar (50 bars in
\* all), with DEBUG on, check_signal fires on case 1 with entry 111, stop
\* 108.78 and target 115.44, the SMA being 4410/44 = 100.23 and the volume
\* above its average; with DEBUG off the RSI of 100 rejects the bar.
C4_Amended ==
    \A n \in {m \in Lengths : m >= 50} :
        (idx = 1 /\ symbols = <<C4_World(n)>>) =>
            /\ Last.sma_44 = Num(441000, 44)
            /\ Last.volume * 20 > Last.vol_avg_20.num
            /\ Last.rsi_14 = Num(100, 1)
            /\ DEBUG => C4_Levels
            /\ ~DEBUG => signal = None

\* C4 witness: the bar after exactly 49 flat bars has fired
C4_Witness ==
    /\ idx = 1
    /\ symbols = <<C4_World(50)>>
    /\ C4_Levels

C5_GatesPass ==
    /\ df # None
    /\ ~too_short(df)
    /\ ~indicators_missing(Last)
    /\ ~rsi_rejects(Last)
    /\ ~volume_rejects(Last)
    /\ ~angle_below_min(Last.sma_44, sma_old_row(df).sma_44)

C5_CaseA ==
    /\ Last.close > Last.open
    /\ Last.low * 44 * 1000 <= Last.sma_44.num * (1000 + SUPPORT_TOLERANCE)
    /\ Last.close * 44 > Last.sma_44.num

C5_CaseB ==
    LET prev == df[Len(df) - 1]
        prev2 == df[Len(df) - 2]
    IN  /\ Last.close > Last.open
        /\ Last.close > prev.high
        /\ Last.low * 44 * 1000 > Last.sma_44.num * (1000 + SUPPORT_TOLERANCE)
        /\ prev.close < prev.open
        /\ prev2.close < prev2.open
        /\ \/ prev.low * 44 * 1000 <= prev.sma_44.num * (1000 + SUPPORT_TOLERANCE)
           \/ prev2.low * 44 * 1000 <= prev2.sma_44.num * (1000 + SUPPORT_TOLERANCE)

\* C5: when the length and NaN preconditions, the RSI and volume gates and
\* the trend gate pass, check_signal returns a record exactly when case A
\* (bullish bar, low within the tolerance band of the SMA, close above the
\* SMA) or case B (bullish bar closing above the previous high with its low
\* above the band, both preceding bars bearish, one of them with its low in
\* the band of its own SMA) holds.
C5_CaseIff ==
    C5_GatesPass => (signal # None <=> (C5_CaseA \/ C5_CaseB))

\* C5 witness: a record returned on case B alone
C5_Witness ==
    /\ C5_GatesPass
    /\ ~C5_CaseA
    /\ C5_CaseB
    /\ signal # None

\* C6 as claimed: check_signal returns None whenever the angle of the SMA
\* rise between the classified bar and the bar 5 bars before it is below
\* the minimum angle.
C6_Claim ==
    (/\ df # None
     /\ ~too_short(df)
     /\ angle_below_min(Last.sma_44, df[Len(df) - 5].sma_44)) => signal = None

\* C7: with DEBUG off, every record check_signal returns comes from a bar
\* with 38 <= rsi_14 <= 60 and volume strictly above vol_avg_20.
C7_ProductionGates ==
    (~DEBUG /\ df # None /\ signal # None) =>
        /\ ~Last.rsi_14.nan
        /\ 38 * Last.rsi_14.den <= Last.rsi_14.num
        /\ Last.rsi_14.num <= 60 * Last.rsi_14.den
        /\ ~Last.vol_avg_20.nan
        /\ Last.volume * Last.vol_avg_20.den > Last.vol_avg_20.num

\* C7 witness: a record returned with DEBUG off
C7_Witness == ~DEBUG /\ df # None /\ signal # None

\* C8: check_signal returns a record only for a series of at least 50 bars,
\* hence for a classified bar of index at least 49 >= max(44, lookback + 1).
C8_MinIndex ==
    (df # None /\ signal # None) =>
        /\ Len(df) >= 50
        /\ Len(df) - 1 >= Max(44, lookback + 1)

\* C8 witness: 49 bars ending in a bar that satisfies case A with DEBUG on,
\* and no record
C8_Witness ==
    /\ DEBUG
    /\ df # None
    /\ Len(df) = 49
    /\ C5_CaseA
    /\ ~Last.rsi_14.nan
    /\ signal = None

\* C9: when sma_44, rsi_14 or vol_avg_20 is NaN on the classified bar,
\* check_signal returns None, in either mode, and no exception leaves
\* calculate_indicators or check_signal.
C9_UndefinedIndicator ==
    (/\ df # None
     /\ Last.sma_44.nan \/ Last.rsi_14.nan \/ Last.vol_avg_20.nan) =>
        /\ signal = None
        /\ error \notin {"calculate_indicators", "check_signal"}

\* C9 witness: 14 zero deltas (RSI NaN) on a bar that passes the trend gate
\* and satisfies case A, and no record
C9_Witness ==
    /\ df # None
    /\ ~too_short(df)
    /\ Last.rsi_14.nan
    /\ ~Last.sma_44.nan
    /\ ~angle_below_min(Last.sma_44, sma_old_row(df).sma_44)
    /\ C5_CaseA
    /\ signal = None

\* the rolling means of gains and losses behind rsi_14
C10_Closes == [i \in 1..Len(df) |-> df[i].close]
C10_AvgGain == rolling_mean(gain_col(C10_Closes), RSI_PERIOD)
C10_AvgLoss == rolling_mean(loss_col(C10_Closes), RSI_PERIOD)

\* C10: at every index where the 14-value window is full, rsi_14 is NaN when
\* avgGain and avgLoss are both 0, is 100 when avgLoss is 0 and avgGain is
\* positive, and otherwise lies in [0, 100]; no exception leaves
\* calculate_indicators.
C10_RsiRange ==
    df # None =>
        LET gain == C10_AvgGain
            loss == C10_AvgLoss
        IN  /\ error # "calculate_indicators"
            /\ \A i \in 1..Len(df) :
                LET g == gain[i]
                    l == loss[i]
                    rsi == df[i].rsi_14
                IN  /\ ~rsi.nan =>
                        (0 <= rsi.num /\ rsi.num <= 100 * rsi.den /\ rsi.den > 0)
                    /\ (~g.nan /\ g.num = 0 /\ l.num = 0) => rsi.nan
                    /\ (~g.nan /\ g.num > 0 /\ l.num = 0) =>
                            (~rsi.nan /\ rsi.num = 100 * rsi.den)
                    /\ (~g.nan /\ l.num > 0) => ~rsi.nan

\* C10 witness: a frame with an index where RSI saturates at 100, one where it
\* is NaN on a full window, and one strictly inside (0, 100)
C10_Witness ==
    /\ df # None
    /\ LET gain == C10_AvgGain
           loss == C10_AvgLoss
       IN  /\ \E i \in 1..Len(df) :
                loss[i].num = 0 /\ gain[i].num > 0 /\ df[i].rsi_14 = Num(100, 1)
           /\ \E i \in RSI_PERIOD..Len(df) :
                loss[i].num = 0 /\ gain[i].num = 0 /\ df[i].rsi_14.nan
    /\ \E i \in 1..Len(df) :
            ~df[i].rsi_14.nan /\ 0 < df[i].rsi_14.num
            /\ df[i].rsi_14.num < 100 * df[i].rsi_14.den

\* C11 as claimed: in every frame calculate_indicators produces, sma_44 is
\* NaN at indices 0..42, vol_avg_20 at indices 0..18 and rsi_14 at indices
\* 0..13 (positions 1..43, 1..19 and 1..14).
C11_Claim ==
    df # None =>
        \A i \in 1..Len(df) :
            /\ i <= 43 => df[i].sma_44.nan
            /\ i <= 19 => df[i].vol_avg_20.nan
            /\ i <= 14 => df[i].rsi_14.nan

\* the candle and the indicators of a row of a frame
Candle(row) ==
    <<row.timestamp, row.open, row.high, row.low, row.close, row.volume>>
Indicators(row) == <<row.sma_44, row.vol_avg_20, row.rsi_14>>

\* the two series agree on their first i candles
AgreeUpTo(f, g, i) ==
    /\ i <= Len(f) /\ i <= Len(g)
    /\ \A k \in 1..i : Candle(f[k]) = Candle(g[k])

\* C12: no look-ahead.  For the frames of two series that main scans one
\* after the other and every index i up to which the two series hold the same
\* candles (one may be shorter, or they may differ after i), sma_44,
\* vol_avg_20 and rsi_14 at i are the same in both frames, NaN included.
C12_NoLookAhead ==
    [][(df # None /\ df' # None) =>
        \A i \in 1..Min(Len(df), Len(df')) :
            AgreeUpTo(df, df', i) => Indicators(df[i]) = Indicators(df'[i])]_vars

\* C12 witness: the second of two series of 50 candles has been scanned;
\* they agree on 49 candles and differ at the last one, the indicators at
\* the last one differ, and those at candle 49 are defined and the same in
\* both frames
C12_Witness ==
    /\ idx = 2
    /\ Len(symbols) = 2
    /\ df # None
    /\ symbols[1] \in PairWorlds
    /\ LET first == frame_of[symbols[1]]
       IN  /\ Len(first) = 50 /\ Len(df) = 50
           /\ AgreeUpTo(first, df, 49)
           /\ Candle(first[50]) # Candle(df[50])
           /\ Indicators(first[50]) # Indicators(df[50])
           /\ ~df[49].sma_44.nan /\ ~df[49].vol_avg_20.nan /\ ~df[49].rsi_14.nan
           /\ Indicators(first[49]) = Indicators(df[49])

\* C13 as claimed: a complete scan in which check_signal returned no signal
\* ends with the "No signals found" notification, in new_scanner.main and in
\* swing_scanner.main, whatever the configuration.
C13_Original ==
    /\ (pc = "done" /\ idx = Len(symbols) /\ Qualifying = <<>>) => notified
    /\ (swing_pc = "done" /\ valid_trades = <<>>) => swing_msg = "no_signals"

\* C13 amended: after a complete scan in which check_signal returned no
\* signal, swing_scanner.main calls send_telegram_msg with the "No signals
\* found" message; new_scanner.main posts that message when DEBUG is off or
\* no symbol's data was fetched (it is emitted unless requests.post itself
\* raises, which ends main), and with DEBUG on and data fetched it sends the
\* debug mock signal instead and posts no such message.
C13_Amended ==
    /\ (/\ pc \in {"done", "crashed"}
        /\ error # "fetch_data"
        /\ idx = Len(symbols)
        /\ Qualifying = <<>>) =>
            IF DEBUG /\ last_processed_df # None
            THEN /\ ~notified
                 /\ Len(MockSent) = 1 \/ error = "send_telegram_photo"
            ELSE notified \/ error = "requests.post"
    /\ (swing_pc = "done" /\ valid_trades = <<>>) => swing_msg = "no_signals"

\* C13 witness: with DEBUG off a scan of two symbols, one of them with data,
\* found nothing and the notification was posted
C13_Witness ==
    /\ pc = "done"
    /\ ~DEBUG
    /\ Len(symbols) = 2
    /\ idx = 2
    /\ last_processed_df # None
    /\ Qualifying = <<>>
    /\ sent = <<>>
    /\ notified

\* C14 as claimed: a symbol whose fetch or classification fails is skipped
\* and the scan goes on: unless a delivery failed, main leaves its loop only
\* when the universe is exhausted or the signal cap is reached.
C14_Claim ==
    (/\ pc \in {"tail", "done", "crashed"}
     /\ error \notin {"send_telegram_photo", "requests.post"}) =>
        \/ idx = Len(symbols)
        \/ signals_sent >= MAX_SIGNALS

\* C15 as claimed: a failed delivery of the signal of symbol k does not stop
\* the scan: when send_telegram_photo has raised, the symbols after k are
\* still scanned, unless k was the last symbol or its signal would have
\* reached the cap.
C15_Claim ==
    (pc = "crashed" /\ error = "send_telegram_photo") =>
        \/ idx = Len(symbols)
        \/ signals_sent + 1 >= MAX_SIGNALS

\* C16: once signals_sent has reached MAX_SIGNALS, no step of main takes
\* another row of the universe: no symbol is fetched, gets indicators or is
\* classified any more (idx, df, last_processed_df and signal stay as they
\* are).
C16_StopsAtCap ==
    [][signals_sent >= MAX_SIGNALS =>
        /\ idx' = idx
        /\ df' = df
        /\ last_processed_df' = last_processed_df
        /\ signal' = signal]_vars

\* C16 witness: main has returned with the cap reached by real signals while
\* a symbol that qualifies was still ahead
C16_Witness ==
    /\ pc = "done"
    /\ MAX_SIGNALS > 0
    /\ Len(RealSent) = MAX_SIGNALS
    /\ idx < Len(symbols)
    /\ \E k \in (idx + 1)..Len(symbols) : Qualifies(symbols[k])

\* the pattern of the running historical scan holds at Python index i
HistPattern(i) ==
    IF hist_script = "stock_pick copy 2" THEN copy2_passes(hist_df, i)
    ELSE old_passes(hist_df, i)

\* the first index the running historical scan looks at
HistFirst ==
    IF hist_script = "stock_pick copy 2" THEN COPY2_FIRST ELSE old_first

\* a trade was emitted for the bar at Python index i
HistTradeAt(i) ==
    \E k \in 1..Len(trades) : trades[k].signal_date = hist_df[i + 1].timestamp

\* C17 as claimed: the historical scan examines every index up to and
\* including length-2: when it has returned, and the bar at index length-2
\* satisfies the pattern (its following bar, the last one, exists), a trade
\* was emitted for that bar.
C17_Claim ==
    (/\ hist_pc = "done"
     /\ Len(hist_df) - 2 >= HistFirst
     /\ HistPattern(Len(hist_df) - 2)) => HistTradeAt(Len(hist_df) - 2)

\* the bar of hist_df dated ts
HistRow(ts) ==
    hist_df[CHOOSE j \in 1..Len(hist_df) : hist_df[j].timestamp = ts]

\* C18 as claimed: for every trade of the historical scan, the bar after the
\* signal bar breaks out above the signal bar's high, and the entry price is
\* taken from that following bar (it is a price inside the following bar's
\* range), not from the signal bar's own high.
C18_Claim ==
    \A k \in 1..Len(trades) :
        LET sig == HistRow(trades[k].signal_date)
            nxt == HistRow(trades[k].entry_date)
        IN  /\ trades[k].entry_date = trades[k].signal_date + 1
            /\ nxt.high > sig.high
            /\ nxt.low <= trades[k].entry_price
            /\ trades[k].entry_price <= nxt.high

\* C19 as claimed: every signal or trade that carries a target has
\* target - entry = 2 * (entry - stop loss): the trades of the historical
\* scan, the signals swing_scanner collects and the signal new_scanner's
\* check_signal returns.
C19_Claim ==
    /\ \A k \in 1..Len(trades) :
            trades[k].has_target =>
                trades[k].target - trades[k].entry_price
                    = 2 * (trades[k].entry_price - trades[k].stop_loss)
    /\ \A k \in 1..Len(valid_trades) :
            LET t == valid_trades[k]
            IN  t.Target.num - t.Entry * t.Target.den
                    = 2 * (t.Entry * t.SL.den - t.SL.num)
    /\ signal # None =>
            signal[1].Target - signal[1].Entry
                = 2 * (signal[1].Entry - signal[1].SL)

\* C20 as claimed: a signal of swing_scanner.check_signal never risks more
\* than 2% of its entry: SL is at least 0.98 * Entry, so
\* (Entry - SL) / Entry <= 0.02, for every signal collected in valid_trades.
C20_Claim ==
    \A k \in 1..Len(valid_trades) :
        LET t == valid_trades[k]
        IN  100 * t.SL.num >= 98 * t.Entry * t.SL.den

\* C21 as claimed: every trade of the indicator-based historical detector
\* ("stock_pick copy 2") has stop_loss <= entry_price and
\* stop_loss >= 0.98 * entry_price, and its stop_loss_percent lies in [0, 2],
\* whatever the gap between the signal bar and the entry bar.
C21_Claim ==
    hist_script = "stock_pick copy 2" =>
        \A k \in 1..Len(trades) :
            /\ trades[k].stop_loss <= trades[k].entry_price
            /\ 100 * trades[k].stop_loss >= 98 * trades[k].entry_price
            /\ trades[k].stop_loss_percent >= 0
            /\ trades[k].stop_loss_percent <= 200

\* C22 as claimed: the series fetch_data returns is in strictly ascending
\* timestamp order and holds at most one bar per date, whatever the
\* historical payload and whatever candle fetch_today_candle appends.
C22_Claim ==
    fetch_call = "fetch_data" /\ fetch_pc = "returned" /\ fetched # None =>
        \A i \in 1..Len(fetched) : \A j \in 1..Len(fetched) :
            i < j =>
                /\ \/ fetched[i].date < fetched[j].date
                   \/ /\ fetched[i].date = fetched[j].date
                      /\ fetched[i].time < fetched[j].time
                /\ fetched[i].date # fetched[j].date

\* the running safe_get call has made its GETs one after another, never
\* more than retries, none after one that did not raise, and what it
\* returned is the response of that one, or None exactly when all retries
\* GETs raised
C23_Returns ==
    /\ attempt = Len(gets)
    /\ Len(gets) <= retries
    /\ \A k \in 1..Len(gets) :
            gets[k] # "raise" => k = Len(gets) /\ fetch_r = "response"
    /\ fetch_r = "response" => gets # <<>> /\ gets[Len(gets)] # "raise"
    /\ fetch_r = "None" <=>
            /\ fetch_pc \notin {"safe_get", "today_safe_get"}
            /\ Len(gets) = retries
            /\ \A k \in 1..Len(gets) : gets[k] = "raise"

\* C23: safe_get always terminates after at most retries GET attempts; it
\* returns the response of the first attempt that does not raise a request
\* exception and makes no attempt after it, and it returns None if and only
\* if all retries attempts raised.
C23_SafeGet ==
    /\ []C23_Returns
    /\ (fetch_pc \in {"safe_get", "today_safe_get"}) ~> (fetch_r # "")

\* safe_get called with retries > 1 returned the response of its last
\* attempt after every earlier attempt raised
C23_Witness ==
    /\ fetch_call = "safe_get"
    /\ fetch_pc = "returned"
    /\ retries > 1
    /\ Len(gets) = retries
    /\ fetch_r = "response"
    /\ gets[1] = "raise"

\* the rows of data in a sector
RowsIn(sec) == {k \in 1..Len(data) : data[k].sector = sec}

\* the symbols picked
Picked == {picks[k].symbol : k \in 1..Len(picks)}

\* C24: whenever a picks message is built, at most MAX_SYMBOLS_PER_DAY
\* symbols are picked, all of the chosen sector and all with
\* pct_change >= PREMKT_THRESHOLD; the chosen sector has at least
\* SECTOR_MIN_COUNT threshold-passing symbols and no sector has strictly
\* more; and no unpicked threshold-passing symbol of the chosen sector has a
\* pct_change strictly greater than a picked one.
C24_Picks ==
    picks_msg = "picks" =>
        /\ Len(picks) <= 3
        /\ \A k \in 1..Len(picks) :
                /\ picks[k].sector = chosen_sector
                /\ picks[k].pct_change.num >= 2 * picks[k].pct_change.den
                /\ \E j \in 1..Len(data) : data[j] = picks[k]
        /\ Cardinality(RowsIn(chosen_sector)) >= 3
        /\ \A sec \in Sectors :
                Cardinality(RowsIn(sec)) <= Cardinality(RowsIn(chosen_sector))
        /\ \A j \in RowsIn(chosen_sector) :
                data[j].symbol \notin Picked =>
                    \A k \in 1..Len(picks) :
                        data[j].pct_change.num * picks[k].pct_change.den
                            <= picks[k].pct_change.num * data[j].pct_change.den

\* a picks message built from four symbols of the chosen sector and one of
\* another: three are picked and the one left out moved strictly less
C24_Witness ==
    /\ picks_msg = "picks"
    /\ Len(picks) = 3
    /\ \E sec \in Sectors : sec # chosen_sector /\ RowsIn(sec) # {}
    /\ \E j \in RowsIn(chosen_sector) :
            /\ data[j].symbol \notin Picked
            /\ \E k \in 1..Len(picks) :
                    data[j].pct_change.num * picks[k].pct_change.den
                        < picks[k].pct_change.num * data[j].pct_change.den

====
